---- MODULE Spec2Model ----
(***************************************************************************)
(* QuickShop Analytics dashboard (src/app.py).                             *)
(*                                                                         *)
(* The program is a Streamlit script: every user interaction runs the      *)
(* script once from top to bottom.  Between two runs only st.session_state *)
(* survives (data_loaded, last_upload, selected_segments); every other     *)
(* name of the script is a local of the run.  The model has one action for *)
(* a whole run of the script (Render) and one for the end of the run, when *)
(* the locals are dropped (EndRender).  Widgets are inputs: their return   *)
(* values are drawn from the values the widget can return.                 *)
(*                                                                         *)
(* Dates are day numbers (2024-01-01 is day 1).  A float is a reduced      *)
(* fraction <<n, d>>, with <<0, 0>> for NaN and <<1, 0>> for inf.  Lists   *)
(* of distinct segment labels are sets.  An optional value is a sequence   *)
(* of length 0 (None) or 1.                                                *)
(***************************************************************************)
EXTENDS Integers, Sequences, FiniteSets, TLC

\* ------------------------------------------------------------- bounds
\* The largest number of rows of an uploaded table.
MaxRows == 2

\* --------------------------------------------------- program constants
SamplePeriods == 30
DefaultWindowDays == 7

\* ------------------------------------------------------------ helpers
None == << >>
Some(x) == << x >>

Range(s) == {s[i] : i \in 1..Len(s)}

Max(a, b) == IF a >= b THEN a ELSE b

Abs(n) == IF n < 0 THEN -n ELSE n

RECURSIVE Gcd(_, _)
Gcd(a, b) == IF b = 0 THEN a ELSE Gcd(b, a % b)

\* ------------------------------------------------------------- floats
NaN == <<0, 0>>
Inf == <<1, 0>>
Float(n, d) == LET g == Gcd(Abs(n), d) IN <<n \div g, d \div g>>
IsFinite(x) == x[2] # 0

\* numpy / pandas true division of two integers: x/0 is inf, 0/0 is NaN,
\* and no exception is raised.
TrueDiv(n, d) ==
    IF d = 0 THEN (IF n = 0 THEN NaN ELSE Inf)
    ELSE IF d < 0 THEN Float(-n, -d) ELSE Float(n, d)

Times100(x) == IF IsFinite(x) THEN Float(x[1] * 100, x[2]) ELSE x

\* round(2): to the nearest hundredth, ties to even; NaN and inf stay.
Round2(x) ==
    IF ~IsFinite(x) THEN x
    ELSE LET n == x[1] * 100
             d == x[2]
             q == n \div d
             r == n % d
             up == (2 * r > d) \/ (2 * r = d /\ q % 2 = 1)
         IN Float(IF up THEN q + 1 ELSE q, 100)

\* ------------------------------------------------------------ columns
required_cols == <<"Date", "Visitors", "Orders", "Revenue", "Segment">>

\* The segment labels, in sorted() order.
SegmentOrder == <<"Desktop", "Mobile">>
SegmentLabels == Range(SegmentOrder)

\* ------------------------------------------------------- sample data
create_sample_data ==
    [columns |-> required_cols,
     rows |-> [k \in 1..SamplePeriods |->
                 LET i == k - 1 IN
                 [Date |-> 1 + i,
                  Visitors |-> 1500 + i * 50 + (i % 7) * 200,
                  Orders |-> 150 + i * 5 + (i % 7) * 20,
                  Revenue |-> 15000 + i * 500 + (i % 7) * 2000,
                  Segment |-> IF i % 2 = 0 THEN "Mobile" ELSE "Desktop"]]]

\* ------------------------------------------------------ uploaded files
\* The uploads the model draws from.  Days: two days in the default window
\* and one more than DefaultWindowDays after the first.
UploadDays == {1, 2, 2 + DefaultWindowDays}
Counts == {0, 1}
FileNames == {"a.csv", "b.csv"}

MetricRows ==
    {[Date |-> 1, Visitors |-> v, Orders |-> o, Revenue |-> r, Segment |-> s] :
        v \in Counts, o \in Counts, r \in Counts, s \in SegmentLabels}

DatedRows ==
    {[Date |-> d, Visitors |-> 1, Orders |-> 1, Revenue |-> 1, Segment |-> s] :
        d \in UploadDays, s \in SegmentLabels}

SeqsUpTo(S, n) == UNION {[1..k -> S] : k \in 1..n}

\* Tables with every required column: rows of one day with any metrics, or
\* rows of any day with unit metrics.
ValidTables == SeqsUpTo(MetricRows, MaxRows) \cup SeqsUpTo(DatedRows, MaxRows)

Restrict(r, cols) == [c \in cols |-> r[c]]

SubSeqs(s) ==
    {SelectSeq(s, LAMBDA c : c \in keep) : keep \in SUBSET Range(s)}

TemplateRow ==
    [Date |-> 1, Visitors |-> 1, Orders |-> 1, Revenue |-> 1, Segment |-> "Mobile"]

\* A file is its name, whether read_csv can read it, its header, whether its
\* Date column (if any) holds dates, and its rows.
UnreadableFiles ==
    {[name |-> n, readable |-> FALSE, columns |-> << >>, dates_ok |-> TRUE,
      rows |-> << >>] : n \in FileNames}

BadDateFiles ==
    {[name |-> n, readable |-> TRUE, columns |-> required_cols, dates_ok |-> FALSE,
      rows |-> <<TemplateRow>>] : n \in FileNames}

MissingColumnFiles ==
    {[name |-> n, readable |-> TRUE, columns |-> cols, dates_ok |-> TRUE,
      rows |-> <<Restrict(TemplateRow, Range(cols))>>] :
        n \in FileNames, cols \in SubSeqs(required_cols) \ {required_cols, << >>}}

ValidFiles ==
    {[name |-> n, readable |-> TRUE, columns |-> required_cols, dates_ok |-> TRUE,
      rows |-> t] : n \in FileNames, t \in ValidTables}

RejectedFiles == UnreadableFiles \cup BadDateFiles \cup MissingColumnFiles

\* The uploads of the sessions of several runs: every rejected file, and the
\* tables whose rows differ in day and segment, under either name.
SessionFiles ==
    RejectedFiles \cup
    {f \in ValidFiles : f.rows \in SeqsUpTo(DatedRows, MaxRows)}

\* The uploads of the first run of a session, where the name of the file
\* plays no part: every file of one name.
Files == {f \in RejectedFiles \cup ValidFiles : f.name = "a.csv"}

\* read_csv, then to_datetime of the Date column, inside one try: any
\* exception (a KeyError for a missing Date column included) becomes the
\* error string.
process_uploaded_data_keeping_bad_dates(uploaded_file) ==
    IF ~uploaded_file.readable
    THEN [df |-> None, error |-> Some("ParserError")]
    ELSE IF "Date" \notin Range(uploaded_file.columns)
    THEN [df |-> None, error |-> Some("'Date'")]
    ELSE [df |-> Some([columns |-> uploaded_file.columns,
                       rows |-> uploaded_file.rows]),
          error |-> None]

process_uploaded_data(uploaded_file) ==
    IF ~uploaded_file.readable
    THEN [df |-> None, error |-> Some("ParserError")]
    ELSE IF "Date" \notin Range(uploaded_file.columns)
    THEN [df |-> None, error |-> Some("'Date'")]
    ELSE IF ~uploaded_file.dates_ok
    THEN [df |-> None, error |-> Some("DateParseError")]
    ELSE [df |-> Some([columns |-> uploaded_file.columns,
                       rows |-> uploaded_file.rows]),
          error |-> None]

\* The upload branch of the script: the table and the error of the file, the
\* validation of the columns, and what the branch leaves in the session state.
missing_cols_of(columns) ==
    SelectSeq(required_cols, LAMBDA col : col \notin Range(columns))

upload_last_upload_not_recorded(uploaded_file, old_last_upload) == old_last_upload

upload_last_upload(uploaded_file, old_last_upload) ==
    IF old_last_upload # Some(uploaded_file.name)
    THEN Some(uploaded_file.name)
    ELSE old_last_upload

upload_branch(uploaded_file, old_last_upload, old_data_loaded) ==
    LET res == process_uploaded_data(uploaded_file)
        last == upload_last_upload(uploaded_file, old_last_upload)
    IN IF res.error # None /\ res.error # Some("")
       THEN [df |-> res.df, error |-> res.error, missing_cols |-> << >>,
             sidebar |-> "error", last_upload |-> last,
             data_loaded |-> old_data_loaded]
       ELSE IF res.df # None
       THEN LET missing == missing_cols_of(res.df[1].columns)
            IN IF missing # << >>
               THEN [df |-> None, error |-> res.error, missing_cols |-> missing,
                     sidebar |-> "missing_columns", last_upload |-> last,
                     data_loaded |-> old_data_loaded]
               ELSE [df |-> res.df, error |-> res.error, missing_cols |-> missing,
                     sidebar |-> "loaded", last_upload |-> last,
                     data_loaded |-> TRUE]
       ELSE [df |-> res.df, error |-> res.error, missing_cols |-> << >>,
             sidebar |-> "none", last_upload |-> last,
             data_loaded |-> old_data_loaded]

\* ------------------------------------------------------------ controls
DatesOf(rows) == {rows[i].Date : i \in DOMAIN rows}
min_date(rows) == CHOOSE d \in DatesOf(rows) : \A e \in DatesOf(rows) : d <= e
max_date(rows) == CHOOSE d \in DatesOf(rows) : \A e \in DatesOf(rows) : d >= e
default_start(rows) == max_date(rows) - DefaultWindowDays

\* The value argument of the Start Date input.
start_date_default(rows) == Max(default_start(rows), min_date(rows))
\* The value argument of the End Date input.
end_date_default(rows) == max_date(rows)

available_segments(rows) == {rows[i].Segment : i \in DOMAIN rows}

\* st.session_state.selected_segments when the multiselect is built: the
\* Select All and Clear All buttons, then the initialisation of a session
\* that has no selection yet.
segments_default(rows, select_all, clear_all, old_selected) ==
    LET s1 == IF select_all THEN Some(available_segments(rows)) ELSE old_selected
        s2 == IF clear_all THEN Some({}) ELSE s1
        s3 == IF s2 = None THEN Some(available_segments(rows)) ELSE s2
    IN s3[1]

\* -------------------------------------------------------------- filter
filter_mask_end_exclusive(rows, start_date, end_date, segments) ==
    [i \in DOMAIN rows |->
        /\ rows[i].Date >= start_date
        /\ rows[i].Date < end_date
        /\ rows[i].Segment \in segments]

filter_mask_empty_selects_all(rows, start_date, end_date, segments) ==
    [i \in DOMAIN rows |->
        /\ rows[i].Date >= start_date
        /\ rows[i].Date <= end_date
        /\ (segments = {} \/ rows[i].Segment \in segments)]

filter_mask(rows, start_date, end_date, segments) ==
    [i \in DOMAIN rows |->
        /\ rows[i].Date >= start_date
        /\ rows[i].Date <= end_date
        /\ rows[i].Segment \in segments]

\* df[mask]: the rows whose mask is True, in the order of df.
RECURSIVE boolean_index(_, _)
boolean_index(rows, mask) ==
    IF rows = << >> THEN << >>
    ELSE (IF Head(mask) THEN <<Head(rows)>> ELSE << >>)
            \o boolean_index(Tail(rows), Tail(mask))

filter_data(rows, start_date, end_date, segments) ==
    boolean_index(rows, filter_mask(rows, start_date, end_date, segments))

\* --------------------------------------------------------- aggregation
RECURSIVE column_sum(_, _)
column_sum(rows, col) ==
    IF rows = << >> THEN 0 ELSE Head(rows)[col] + column_sum(Tail(rows), col)

column_mean(rows, col) == TrueDiv(column_sum(rows, col), Len(rows))

conversion_rate_unguarded(total_orders, total_visitors) ==
    Times100(TrueDiv(total_orders, total_visitors))

conversion_rate(total_orders, total_visitors) ==
    IF total_visitors > 0
    THEN Times100(TrueDiv(total_orders, total_visitors))
    ELSE Float(0, 1)

avg_order_value(total_revenue, total_orders) ==
    IF total_orders > 0 THEN TrueDiv(total_revenue, total_orders) ELSE Float(0, 1)

compute_kpis(rows) ==
    LET tv == column_sum(rows, "Visitors")
        to == column_sum(rows, "Orders")
        tr == column_sum(rows, "Revenue")
    IN [total_visitors |-> tv,
        avg_daily_visitors |-> column_mean(rows, "Visitors"),
        total_orders |-> to,
        avg_daily_orders |-> column_mean(rows, "Orders"),
        total_revenue |-> tr,
        avg_daily_revenue |-> column_mean(rows, "Revenue"),
        conversion_rate |-> conversion_rate(to, tv),
        avg_order_value |-> avg_order_value(tr, to)]

\* groupby('Segment'): one group per segment present, in sorted key order.
group_keys(rows) == SelectSeq(SegmentOrder, LAMBDA s : s \in available_segments(rows))
group_rows_first_only(rows, s) == <<Head(SelectSeq(rows, LAMBDA r : r.Segment = s))>>

group_rows(rows, s) == SelectSeq(rows, LAMBDA r : r.Segment = s)

groupby_sum(rows, cols) ==
    LET keys == group_keys(rows)
    IN [k \in DOMAIN keys |->
          [c \in cols \cup {"Segment"} |->
              IF c = "Segment" THEN keys[k]
              ELSE column_sum(group_rows(rows, keys[k]), c)]]

segment_rate(orders, visitors) == Times100(TrueDiv(orders, visitors))

with_rate(row, rate) ==
    [c \in DOMAIN row \cup {"Conversion Rate"} |->
        IF c = "Conversion Rate" THEN rate ELSE row[c]]

\* The segment chart's data: visitors per segment, or the sums with the
\* conversion rate.
segment_data_of(rows, analysis_type) ==
    IF analysis_type = "Distribution"
    THEN groupby_sum(rows, {"Visitors"})
    ELSE LET g == groupby_sum(rows, {"Revenue", "Orders", "Visitors"})
         IN [k \in DOMAIN g |->
               with_rate(g[k], segment_rate(g[k].Orders, g[k].Visitors))]

\* The segment breakdown that is exported.
segment_summary_of(rows) ==
    LET g == groupby_sum(rows, {"Visitors", "Orders", "Revenue"})
    IN [k \in DOMAIN g |->
          with_rate(g[k], Round2(segment_rate(g[k].Orders, g[k].Visitors)))]

\* -------------------------------------------------------------- export
\* sort_values('Date', ascending=False) with the default quicksort, which is
\* not stable: rows of one date come in any order.
RECURSIVE sort_orders(_, _)
sort_orders(rows, left) ==
    IF left = {} THEN {<< >>}
    ELSE LET top == CHOOSE i \in left : \A j \in left : rows[i].Date >= rows[j].Date
         IN UNION {{<<rows[i]>> \o rest : rest \in sort_orders(rows, left \ {i})} :
                     i \in {j \in left : rows[j].Date = rows[top].Date}}

sort_values_date_descending(rows) == sort_orders(rows, DOMAIN rows)

\* to_csv(index=False): the header, then one line per row, in the order of the
\* frame, each with the row's fields in the order of the columns.
to_csv(columns, rows) ==
    [header |-> columns,
     lines |-> [i \in DOMAIN rows |-> [k \in DOMAIN columns |-> rows[i][columns[k]]]]]

\* --------------------------------------------------------------- state
VARIABLES
    \* st.session_state
    data_loaded, last_upload, selected_segments,
    \* the position of the script: "idle" between two runs, "rendered" at the
    \* end of a run
    pc,
    \* the locals of the run and what the run showed
    data_source, uploaded_file, df, error, missing_cols, sidebar,
    select_all, clear_all, defaults, start_date, end_date, segments,
    filtered_df, screen, kpis, analysis_type, segment_data, table, csv_data,
    segment_summary

session == <<data_loaded, last_upload, selected_segments>>

loading == <<data_source, uploaded_file, df, error, missing_cols, sidebar>>

controls == <<select_all, clear_all, defaults, start_date, end_date, segments>>

outputs == <<filtered_df, screen, kpis, analysis_type, segment_data, table,
             csv_data, segment_summary>>

vars == <<session, pc, loading, controls, outputs>>

DataSources == {"sample", "upload"}
AnalysisTypes == {"Distribution", "Performance"}

\* The dates the model picks in a date input bounded to [lo, hi]: the days of
\* the uploads, a day between them that no upload has, and the default start
\* and the last day of the sample.
PickDays ==
    UploadDays \cup {1 + DefaultWindowDays, SamplePeriods - DefaultWindowDays,
                     SamplePeriods}
DatePicks(lo, hi) == {d \in PickDays : lo <= d /\ d <= hi}

\* At most one button is clicked in a run.
ButtonClicks == {<<FALSE, FALSE>>, <<TRUE, FALSE>>, <<FALSE, TRUE>>}

Init ==
    /\ data_loaded = FALSE
    /\ last_upload = None
    /\ selected_segments = None
    /\ pc = "idle"
    /\ data_source = None
    /\ uploaded_file = None
    /\ df = None
    /\ error = None
    /\ missing_cols = << >>
    /\ sidebar = "none"
    /\ select_all = FALSE
    /\ clear_all = FALSE
    /\ defaults = None
    /\ start_date = None
    /\ end_date = None
    /\ segments = None
    /\ filtered_df = None
    /\ screen = "none"
    /\ kpis = None
    /\ analysis_type = None
    /\ segment_data = None
    /\ table = None
    /\ csv_data = None
    /\ segment_summary = None

\* The data of the run: the sample, or the upload branch, or nothing when no
\* file is uploaded.
load_data(source, file, old_last_upload, old_data_loaded) ==
    IF source = "sample"
    THEN [df |-> Some(create_sample_data), error |-> None, missing_cols |-> << >>,
          sidebar |-> "sample_loaded", last_upload |-> old_last_upload,
          data_loaded |-> old_data_loaded]
    ELSE IF file # None
    THEN upload_branch(file[1], old_last_upload, old_data_loaded)
    ELSE [df |-> None, error |-> None, missing_cols |-> << >>,
          sidebar |-> "none", last_upload |-> old_last_upload,
          data_loaded |-> old_data_loaded]

csv_data_of_sorted(frame, view) ==
    to_csv(frame.columns, CHOOSE t \in sort_values_date_descending(view) : TRUE)

\* The export of the raw data.
csv_data_of(frame, view) == to_csv(frame.columns, view)

\* The main dashboard: the controls, the filter, and the metrics, charts and
\* exports of a view that is not empty.
Dashboard(frame) ==
    \E click \in ButtonClicks,
       start \in DatePicks(min_date(frame.rows), max_date(frame.rows)),
       end \in DatePicks(min_date(frame.rows), max_date(frame.rows)),
       segs \in SUBSET available_segments(frame.rows) :
       LET seg_default == segments_default(frame.rows, click[1], click[2],
                                           selected_segments)
           view == filter_data(frame.rows, start, end, segs)
       IN /\ select_all' = click[1]
          /\ clear_all' = click[2]
          /\ defaults' = Some([start_date |-> start_date_default(frame.rows),
                               end_date |-> end_date_default(frame.rows),
                               segments |-> seg_default])
          /\ start_date' = Some(start)
          /\ end_date' = Some(end)
          /\ segments' = Some(segs)
          /\ selected_segments' = Some(segs)
          /\ filtered_df' = Some(view)
          /\ IF Len(view) > 0
             THEN /\ screen' = "dashboard"
                  /\ kpis' = Some(compute_kpis(view))
                  /\ \E choice \in AnalysisTypes :
                        /\ analysis_type' = Some(choice)
                        /\ segment_data' = Some(segment_data_of(view, choice))
                  /\ \E sorted \in sort_values_date_descending(view) :
                        table' = Some(sorted)
                  /\ csv_data' = Some(csv_data_of(frame, view))
                  /\ segment_summary' = Some(segment_summary_of(view))
             ELSE /\ screen' = "warning"
                  /\ kpis' = None
                  /\ analysis_type' = None
                  /\ segment_data' = None
                  /\ table' = None
                  /\ csv_data' = None
                  /\ segment_summary' = None

\* No data: the welcome screen.
Welcome ==
    /\ screen' = "welcome"
    /\ UNCHANGED <<selected_segments, controls>>
    /\ UNCHANGED <<filtered_df, kpis, analysis_type, segment_data, table,
                   csv_data, segment_summary>>

\* One run of the script.
Render(source, file) ==
    /\ pc = "idle"
    /\ pc' = "rendered"
    /\ LET load == load_data(source, file, last_upload, data_loaded)
       IN /\ data_source' = Some(source)
          /\ uploaded_file' = file
          /\ df' = load.df
          /\ error' = load.error
          /\ missing_cols' = load.missing_cols
          /\ sidebar' = load.sidebar
          /\ last_upload' = load.last_upload
          /\ data_loaded' = load.data_loaded
          /\ IF load.df # None THEN Dashboard(load.df[1]) ELSE Welcome

\* The run ends: its locals are gone, the session state stays.
EndRender ==
    /\ pc = "rendered"
    /\ pc' = "idle"
    /\ data_source' = None
    /\ uploaded_file' = None
    /\ df' = None
    /\ error' = None
    /\ missing_cols' = << >>
    /\ sidebar' = "none"
    /\ select_all' = FALSE
    /\ clear_all' = FALSE
    /\ defaults' = None
    /\ start_date' = None
    /\ end_date' = None
    /\ segments' = None
    /\ filtered_df' = None
    /\ screen' = "none"
    /\ kpis' = None
    /\ analysis_type' = None
    /\ segment_data' = None
    /\ table' = None
    /\ csv_data' = None
    /\ segment_summary' = None
    /\ UNCHANGED session

RenderSample == Render("sample", None)

RenderUpload(files) ==
    \E file \in {None} \cup {Some(f) : f \in files} : Render("upload", file)

\* A session of any number of runs.
Next == RenderSample \/ RenderUpload(SessionFiles) \/ EndRender

Spec == Init /\ [][Next]_vars

\* The first run of a session, on any of the uploads.
NextFirstRun == RenderSample \/ RenderUpload(Files)

SpecFirstRun == Init /\ [][NextFirstRun]_vars

\* ------------------------------------------------------------- claims
Rendered == pc = "rendered"

\* The inclusion predicate of the run's FilterSpec.
Included(r) ==
    /\ start_date[1] <= r.Date
    /\ r.Date <= end_date[1]
    /\ r.Segment \in segments[1]

\* The k-th smallest member of a set of indices.
KthIndex(M, k) == CHOOSE i \in M : Cardinality({j \in M : j < i}) = k - 1

\* C1: the filtered view is exactly the subsequence of the dataset's records
\* that satisfy start_date <= date <= end_date and segment in segments: the
\* k-th record of the view is the k-th record of the dataset that satisfies
\* the predicate, so each such record is there once, in the dataset's order,
\* and nothing else is.
C1_FilterIsExactSubsequence ==
    filtered_df # None =>
        LET rows == df[1].rows
            view == filtered_df[1]
            M == {i \in DOMAIN rows : Included(rows[i])}
        IN /\ Len(view) = Cardinality(M)
           /\ \A k \in DOMAIN view : view[k] = rows[KthIndex(M, k)]

\* A view of several records that leaves out a record for its date and
\* another for its segment.
C1_Witness ==
    /\ filtered_df # None
    /\ Len(filtered_df[1]) >= 2
    /\ \E i \in DOMAIN df[1].rows :
          df[1].rows[i].Date < start_date[1] /\ df[1].rows[i].Segment \in segments[1]
    /\ \E i \in DOMAIN df[1].rows :
          /\ df[1].rows[i].Segment \notin segments[1]
          /\ start_date[1] <= df[1].rows[i].Date
          /\ df[1].rows[i].Date <= end_date[1]

\* The required columns the header of a file lacks.
MissingFrom(file) == {c \in Range(required_cols) : c \notin Range(file.columns)}

\* C2: an upload that read_csv reads, whose dates parse and whose header
\* lacks the non-empty set S of required columns, is rejected with the
\* missing-columns error listing exactly S.
C2_EveryMissingColumnReported ==
    (/\ Rendered
     /\ uploaded_file # None
     /\ uploaded_file[1].readable
     /\ uploaded_file[1].dates_ok
     /\ MissingFrom(uploaded_file[1]) # {})
    => /\ sidebar = "missing_columns"
       /\ Range(missing_cols) = MissingFrom(uploaded_file[1])

\* A file the upload branch has to reject: it does not parse, or it lacks a
\* required column.
Rejected(file) ==
    \/ ~file.readable
    \/ ~file.dates_ok
    \/ MissingFrom(file) # {}

NothingProduced ==
    /\ filtered_df = None
    /\ kpis = None
    /\ segment_data = None
    /\ table = None
    /\ csv_data = None
    /\ segment_summary = None

\* C3: in a run whose uploaded file fails to parse or lacks a required
\* column, df is None at the main dashboard section: the welcome screen is
\* shown and no filter, KPI, chart or export is produced.
C3_ErrorsAreTerminal ==
    (Rendered /\ uploaded_file # None /\ Rejected(uploaded_file[1]))
    => /\ df = None
       /\ screen = "welcome"
       /\ NothingProduced

\* A rejected upload in a session that loaded a valid upload before and
\* holds a segment selection.
C3_Witness ==
    /\ Rendered
    /\ uploaded_file # None
    /\ Rejected(uploaded_file[1])
    /\ sidebar = "missing_columns"
    /\ data_loaded
    /\ selected_segments # None

\* C4 as stated: a run in which process_uploaded_data returns an error leaves
\* the whole session state as it was.
C4_ErrorLeavesSessionState ==
    [][(pc' = "rendered" /\ error' # None) => session' = session]_vars

\* C4 as amended: such a run leaves data_loaded and selected_segments as they
\* were, and last_upload holds the name of the file that failed.
C4_ErrorSetsOnlyLastUpload ==
    [][(pc' = "rendered" /\ error' # None)
        => /\ data_loaded' = data_loaded
           /\ selected_segments' = selected_segments
           /\ last_upload' = Some(uploaded_file'[1].name)]_vars

\* A failed upload in a session that has a loaded flag and a selection to
\* keep.
C4_Witness ==
    /\ Rendered
    /\ error # None
    /\ data_loaded
    /\ selected_segments # None
    /\ last_upload = Some(uploaded_file[1].name)

DescendingByDate(rows) ==
    \A i \in DOMAIN rows : i + 1 \in DOMAIN rows => rows[i].Date >= rows[i + 1].Date

Occurrences(rows, r) == Cardinality({i \in DOMAIN rows : rows[i] = r})

SameRecords(a, b) ==
    /\ Len(a) = Len(b)
    /\ \A r \in Range(a) \cup Range(b) : Occurrences(a, r) = Occurrences(b, r)

\* The record a line of the export was written from.
LineRecord(header, line) ==
    [c \in Range(header) |-> line[CHOOSE k \in DOMAIN header : header[k] = c]]

ExportedRecords(csv) == [i \in DOMAIN csv.lines |-> LineRecord(csv.header, csv.lines[i])]

RateZeroGuarded(row, rate) ==
    /\ IsFinite(row["Conversion Rate"])
    /\ row.Visitors = 0 => row["Conversion Rate"] = Float(0, 1)
    /\ row.Visitors > 0 => row["Conversion Rate"] = rate

\* C6: in the segment summary (and the segment chart's data) a segment whose
\* visitors sum to 0 has conversion rate 0, no rate is NaN or infinite, and a
\* segment with visitors has orders / visitors * 100.
C6_SegmentRateZeroGuarded ==
    /\ segment_summary # None =>
          \A k \in DOMAIN segment_summary[1] :
             LET row == segment_summary[1][k]
             IN RateZeroGuarded(row, Round2(Float(row.Orders * 100, row.Visitors)))
    /\ (segment_data # None /\ analysis_type = Some("Performance")) =>
          \A k \in DOMAIN segment_data[1] :
             LET row == segment_data[1][k]
             IN RateZeroGuarded(row, Float(row.Orders * 100, row.Visitors))

\* C7: conversion_rate is total_orders / total_visitors * 100 when
\* total_visitors > 0 and 0 otherwise, avg_order_value is total_revenue /
\* total_orders when total_orders > 0 and 0 otherwise, and no KPI is NaN or
\* infinite: nothing was divided by zero.
C7_KpiRatiosZeroGuarded ==
    kpis # None =>
        LET k == kpis[1] IN
        /\ IsFinite(k.conversion_rate)
        /\ IsFinite(k.avg_order_value)
        /\ IF k.total_visitors > 0
           THEN k.conversion_rate[1] * k.total_visitors
                    = k.total_orders * 100 * k.conversion_rate[2]
           ELSE k.conversion_rate = <<0, 1>>
        /\ IF k.total_orders > 0
           THEN k.avg_order_value[1] * k.total_orders
                    = k.total_revenue * k.avg_order_value[2]
           ELSE k.avg_order_value = <<0, 1>>

\* KPIs of a view whose visitors and orders sum to 0 while its revenue does
\* not.
C7_Witness ==
    /\ kpis # None
    /\ kpis[1].total_visitors = 0
    /\ kpis[1].total_orders = 0
    /\ kpis[1].total_revenue > 0

\* C8: an empty selection or start_date > end_date gives an empty view and no
\* error; a run with an empty view shows the warning and computes no KPI,
\* chart or export; KPIs (the means among them) exist only for a view that is
\* not empty, and the means are finite.
C8_EmptyViewIsSoft ==
    filtered_df # None =>
        /\ (segments[1] = {} \/ start_date[1] > end_date[1]) => filtered_df[1] = << >>
        /\ filtered_df[1] = << >> =>
              /\ screen = "warning"
              /\ error = None
              /\ kpis = None
              /\ segment_data = None
              /\ table = None
              /\ csv_data = None
              /\ segment_summary = None
        /\ kpis # None =>
              /\ filtered_df[1] # << >>
              /\ IsFinite(kpis[1].avg_daily_visitors)
              /\ IsFinite(kpis[1].avg_daily_orders)
              /\ IsFinite(kpis[1].avg_daily_revenue)

\* An inverted date range, with every segment selected, on a dataset of
\* several days.
C8_Witness ==
    /\ filtered_df # None
    /\ start_date[1] > end_date[1]
    /\ segments[1] = available_segments(df[1].rows)
    /\ screen = "warning"

RECURSIVE SumOver(_, _)
SumOver(rows, col) ==
    IF rows = << >> THEN 0 ELSE rows[1][col] + SumOver(Tail(rows), col)

\* C9: the visitors (orders, revenue) of the rows of the segment summary add
\* up to total_visitors (total_orders, total_revenue) of the KPIs of the same
\* view, and the summary has one row for each segment of the view.
C9_SegmentSumsPartitionTotals ==
    segment_summary # None =>
        LET rows == segment_summary[1] IN
        /\ SumOver(rows, "Visitors") = kpis[1].total_visitors
        /\ SumOver(rows, "Orders") = kpis[1].total_orders
        /\ SumOver(rows, "Revenue") = kpis[1].total_revenue
        /\ {rows[k].Segment : k \in DOMAIN rows} = available_segments(filtered_df[1])
        /\ \A j, k \in DOMAIN rows : rows[j].Segment = rows[k].Segment => j = k

\* A summary of two segments, one of them with several records, with
\* visitors.
C9_Witness ==
    /\ segment_summary # None
    /\ Len(segment_summary[1]) = 2
    /\ Len(filtered_df[1]) > 2
    /\ kpis[1].total_visitors > 0

\* C10: in the first run of a newly uploaded dataset (the name of the file is
\* not the session's last_upload), with no button clicked, the defaults
\* offered to the controls are start_date = max(min_date, max_date - 7 days),
\* end_date = max_date and every segment of the dataset.
C10_DefaultFilterSpecOfNewDataset ==
    [][(/\ pc' = "rendered"
        /\ df' # None
        /\ data_source' = Some("upload")
        /\ last_upload' # last_upload
        /\ ~select_all'
        /\ ~clear_all')
       => LET rows == df'[1].rows IN
          /\ defaults'[1].start_date = Max(min_date(rows), max_date(rows) - 7)
          /\ defaults'[1].end_date = max_date(rows)
          /\ defaults'[1].segments = available_segments(rows)]_vars

====
